---------------------------- MODULE Spec2Model ----------------------------
(***************************************************************************)
(* A model of the tutoring client in frontend/app.js: the session          *)
(* bootstrapper (page-load restore, login, signOut), the thread and        *)
(* context manager (loadThreads, createThread, switchThread, loadHistory,  *)
(* sendMessage, appendMessage, updateContextWarning) and the notification  *)
(* scheduler (showNotification, showLevelUp and their timers), the         *)
(* progress panel and level-up check of loadDashboard, the topics and      *)
(* study-materials loaders, the voice dictation controller (toggleVoice    *)
(* and the handlers of the recognition handle), and the React Chat page    *)
(* (pages/Chat.jsx with context/AppContext.jsx and services/api.js).       *)
(*                                                                         *)
(* JavaScript runs one callback at a time.  An action of this model is one *)
(* run-to-completion step: a user event or the arrival of one response,    *)
(* executed up to the next await of a fetch.  Requests in flight are kept  *)
(* in the bag network; each carries the continuation (cont) of the async   *)
(* function that awaits it.                                                *)
(***************************************************************************)
EXTENDS Integers, Sequences, FiniteSets, Bags, TLC

\* JavaScript null (falsy, like the ids 0 that the code treats as absent).
NULL == 0
CONTEXT_THRESHOLD == 10

\* Bounds of the model.
MaxLevel == 11
MaxSnapshots == 3
MaxPageOps == 3
MaxToggles == 3
MaxReloads == 1
MaxEnds == 2
MaxResults == 2
NumUsers == 2
MaxThreads == 4
MaxHist == 6
MaxOps == 2
MaxInFlight == 2
MaxShows == 2
MaxTime == 9000

\* app.js:32; the code's XP_THRESHOLDS[i] is XP_THRESHOLDS[i + 1] here.
XP_THRESHOLDS == <<0, 100, 250, 500, 1000, 2000>>

\* Delays of the banner timers, in ms.
NOTIFICATION_MS == 4000
LEVELUP_MS == 5000
FADE_MS == 500

Users == 1..NumUsers
ThreadIds == 1..MaxThreads
Results == {"ok", "notok", "fail"}

VARIABLES
    currentUserId,          \* app.js:3
    currentThreadId,        \* app.js:9
    currentMessagesCount,   \* app.js:14
    localStorage,           \* [userId, username]
    display,                \* which sections are shown
    contextWarning,         \* #context-warning is visible
    chatMessages,           \* children of #chat-messages
    historyEl,              \* content of #history
    summaryEl,              \* content of #summary
    threadTabs,             \* thread ids rendered as tabs in #threads-tabs
    notification,           \* class of the banner last shown by showNotification
    alerts,                 \* number of blocking alert() dialogs shown
    keypressHandlers,       \* Enter-key listeners attached to #chat-input
    network,                \* bag of requests in flight
    serverThreads,          \* server: thread ids of each user
    serverHistory,          \* server: number of history records of each thread
    restorePc,              \* position of the DOMContentLoaded handler
    loginPc,                \* position of login()
    launched,               \* loaders whose fetch was issued by restore / login
    ops,                    \* user events so far (bounded by MaxOps)
    now,                    \* the clock, in ms
    notifEl,                \* #notification: [display, text]
    levelEl,                \* #level-notification: [display, opacity, text]
    timers,                 \* pending setTimeout callbacks: [due, act]
    shows,                  \* banner calls so far (bounded by MaxShows)
    notifMounted,           \* #notification exists: "unread" until first looked up
    levelMounted,           \* #level-notification exists: likewise
    progressInfo,           \* content of #progress-info
    lastLevelStored,        \* localStorage 'lastLevel': a string of digits
    levelUps,               \* calls of showLevelUp by loadDashboard
    lastLevelWrites,        \* calls of localStorage.setItem('lastLevel', ..)
    snapshots,              \* dashboard snapshots processed (<= MaxSnapshots)
    serverLevel,            \* the level of the user on the server
    dashResponses,          \* bag of the levels in dashboard responses in flight
    levelUpLog,             \* the levels showLevelUp was called for, in order
    topicIdMap,             \* app.js:26: the entries [name, id]
    currentMaterialTopicId, \* app.js:27
    subjectSelect,          \* #material-subject: [options, selected]
    categorySelect,         \* #material-category: [options, selected]
    materialsContent,       \* #materials-content: [text, subject, category, widget]
    matNetwork,             \* bag of topics and materials requests in flight
    speechCapability,       \* window.SpeechRecognition: "unread" until first read
    voiceEnabled,           \* app.js:20
    recognition,            \* app.js:22: the handle created last, or NULL
    handles,                \* the SpeechRecognition objects created so far
    voiceFed,               \* the calls of sendMessage by an onresult handler
    uncaught,               \* exceptions thrown out of an onend handler
    toggles,                \* clicks on the voice button (<= MaxToggles)
    theme,                  \* [dark: body has class dark-mode, stored: localStorage 'theme']
    reload,                 \* [count, thread, dark]: reloads so far, and the
                            \* active thread and theme when the page was reloaded last
    page,                   \* React: "none", or "chat" once Chat is mounted
    userId,                 \* React AppContext: userId
    ctxThreadId,            \* React AppContext: currentThreadId
    ctxXp,                  \* React AppContext: xp
    messages,               \* React Chat: messages
    input,                  \* React Chat: input
    pageNetwork,            \* React: bag of requests of services/api.js in flight
    unhandledRejections,    \* React: promises rejected with no handler
    consoleErrors,          \* React: errors passed to console.error
    pageOps                 \* React: user events so far (<= MaxPageOps)

vars == <<currentUserId, currentThreadId, currentMessagesCount, localStorage,
          display, contextWarning, chatMessages, historyEl, summaryEl,
          threadTabs, notification, alerts, keypressHandlers, network,
          serverThreads, serverHistory, restorePc, loginPc, launched, ops,
          now, notifEl, levelEl, timers, shows, notifMounted, levelMounted,
          progressInfo, lastLevelStored, levelUps, lastLevelWrites, snapshots,
          serverLevel, dashResponses, levelUpLog,
          topicIdMap, currentMaterialTopicId, subjectSelect, categorySelect,
          materialsContent, matNetwork,
          speechCapability, voiceEnabled, recognition, handles, voiceFed,
          uncaught, toggles, theme, reload,
          page, userId, ctxThreadId, ctxXp, messages, input, pageNetwork,
          unhandledRejections, consoleErrors, pageOps>>

\* The state of the React Chat page (checked in SpecChatPage).
pageVars == <<page, userId, ctxThreadId, ctxXp, messages, input, pageNetwork,
              unhandledRejections, consoleErrors, pageOps>>

\* The state of the materials panel and of the topic map (their responses
\* are checked in SpecMaterials).
matVars == <<topicIdMap, currentMaterialTopicId, subjectSelect,
             categorySelect, materialsContent, matNetwork>>

\* The theme and the record of the last reload (checked in SpecReload).
reloadVars == <<theme, reload>>

\* The state of the voice dictation controller (checked in SpecVoice).
voiceVars == <<speechCapability, voiceEnabled, recognition, handles,
               voiceFed, uncaught, toggles>>

\* The state of the progress panel (checked in SpecProgress).
progressVars == <<progressInfo, lastLevelStored, levelUps, lastLevelWrites,
                  snapshots, serverLevel, dashResponses, levelUpLog>>

\* The state of the banner timers (checked in SpecNotify).
notifyVars == <<now, notifEl, levelEl, timers, shows, notifMounted,
                levelMounted>>

\* The state of the session, the threads and the server (checked in Spec).
sessionVars == <<currentUserId, currentThreadId, currentMessagesCount,
                 localStorage, display, contextWarning, chatMessages,
                 historyEl, summaryEl, threadTabs, notification, alerts,
                 keypressHandlers, network, serverThreads, serverHistory,
                 restorePc, loginPc, launched, ops>>

(***************************************************************************)
(* The client state as one record, so that the sequential code of a        *)
(* handler is a composition of functions on it.                            *)
(***************************************************************************)
Cur ==
    [currentUserId |-> currentUserId,
     currentThreadId |-> currentThreadId,
     currentMessagesCount |-> currentMessagesCount,
     localStorage |-> localStorage,
     display |-> display,
     contextWarning |-> contextWarning,
     chatMessages |-> chatMessages,
     historyEl |-> historyEl,
     summaryEl |-> summaryEl,
     threadTabs |-> threadTabs,
     notification |-> notification,
     alerts |-> alerts,
     keypressHandlers |-> keypressHandlers,
     network |-> network,
     restorePc |-> restorePc,
     loginPc |-> loginPc,
     launched |-> launched,
     topicIdMap |-> topicIdMap,
     currentMaterialTopicId |-> currentMaterialTopicId,
     subjectSelect |-> subjectSelect,
     categorySelect |-> categorySelect,
     materialsContent |-> materialsContent,
     matNetwork |-> matNetwork,
     speechCapability |-> speechCapability,
     voiceEnabled |-> voiceEnabled,
     recognition |-> recognition,
     handles |-> handles,
     voiceFed |-> voiceFed,
     uncaught |-> uncaught,
     toggles |-> toggles,
     theme |-> theme,
     reload |-> reload]

Assign(s) ==
    /\ currentUserId' = s.currentUserId
    /\ currentThreadId' = s.currentThreadId
    /\ currentMessagesCount' = s.currentMessagesCount
    /\ localStorage' = s.localStorage
    /\ display' = s.display
    /\ contextWarning' = s.contextWarning
    /\ chatMessages' = s.chatMessages
    /\ historyEl' = s.historyEl
    /\ summaryEl' = s.summaryEl
    /\ threadTabs' = s.threadTabs
    /\ notification' = s.notification
    /\ alerts' = s.alerts
    /\ keypressHandlers' = s.keypressHandlers
    /\ network' = s.network
    /\ restorePc' = s.restorePc
    /\ loginPc' = s.loginPc
    /\ launched' = s.launched
    /\ topicIdMap' = s.topicIdMap
    /\ currentMaterialTopicId' = s.currentMaterialTopicId
    /\ subjectSelect' = s.subjectSelect
    /\ categorySelect' = s.categorySelect
    /\ materialsContent' = s.materialsContent
    /\ matNetwork' = s.matNetwork
    /\ speechCapability' = s.speechCapability
    /\ voiceEnabled' = s.voiceEnabled
    /\ recognition' = s.recognition
    /\ handles' = s.handles
    /\ voiceFed' = s.voiceFed
    /\ uncaught' = s.uncaught
    /\ toggles' = s.toggles
    /\ theme' = s.theme
    /\ reload' = s.reload
    /\ UNCHANGED notifyVars
    /\ UNCHANGED progressVars
    /\ UNCHANGED pageVars

\* A request in flight: fetch(url) built from uid / tid at call time.
Req(kind, uid, tid, cont) ==
    [kind |-> kind, uid |-> uid, tid |-> tid, cont |-> cont]

Fetch(s, req) == [s EXCEPT !.network = @ (+) SetToBag({req})]

\* origin o ("restore", "login" or "") of a loader call is recorded when
\* the loader really issues its request.
Launch(s, o, kind) ==
    IF o = "" THEN s ELSE [s EXCEPT !.launched = @ \cup {<<o, kind>>}]

\* Content of #history.
HistoryText(text) == [text |-> text, tid |-> NULL, n |-> 0]
HistoryItems(tid, n) == [text |-> "items", tid |-> tid, n |-> n]


(***************************************************************************)
(* Synchronous helpers.                                                    *)
(***************************************************************************)

\* app.js:376-384
updateContextWarning(s) ==
    [s EXCEPT !.contextWarning = (s.currentMessagesCount > CONTEXT_THRESHOLD)]

\* app.js:533-543 (the banner; its hide timer is modelled in SpecNotify)
showNotification(s, type) == [s EXCEPT !.notification = type]

\* appendMessage that counts every message, whatever its type.
appendMessage_countAll(s, type, tid) ==
    updateContextWarning(
        [s EXCEPT !.chatMessages = Append(@, [type |-> type, tid |-> tid]),
                  !.currentMessagesCount = @ + 1])

\* app.js:815-844: the message is appended; user and tutor messages count.
appendMessage(s, type, tid) ==
    LET s1 == [s EXCEPT !.chatMessages = Append(@, [type |-> type, tid |-> tid])]
    IN  IF type = "user" \/ type = "tutor"
        THEN updateContextWarning(
                 [s1 EXCEPT !.currentMessagesCount = @ + 1])
        ELSE s1

\* app.js:638-648 and app.js:651-660
updateUserInfo(s) == [s EXCEPT !.display.userInfo = TRUE]
clearUserInfo(s) == [s EXCEPT !.display.userInfo = FALSE]

\* app.js:599-601 and app.js:740-742
showAuthenticated(s) ==
    [s EXCEPT !.display.chat = TRUE, !.display.dashboard = TRUE,
              !.display.auth = FALSE]

\* app.js:603-611 and app.js:744-752
attachEnterHandler(s) == [s EXCEPT !.keypressHandlers = @ + 1]

(***************************************************************************)
(* The loaders, up to their fetch.  A loader that returns before its fetch *)
(* resumes its caller at once (cont).                                      *)
(***************************************************************************)

\* The responses to loadTopics and loadSubjects touch only the topic map
\* and the materials panel: their requests are kept in matNetwork, apart
\* from network.  The response to loadGoals touches only the goal list,
\* which is no part of this state: its request is recorded as launched.

\* A topics or materials request: fetch(url) built from the selected
\* subject and category at call time.
MatReq(kind, subject, category) ==
    [kind |-> kind, subject |-> subject, category |-> category]

MatFetch(s, req) == [s EXCEPT !.matNetwork = @ (+) SetToBag({req})]

\* A select element: its options in order and the index of the selected
\* one (1-based; 0 while there is no option).
EmptySelect == [options |-> <<>>, selected |-> 0]

\* select.value: the value of the selected option, '' without options.
Value(sel) == IF sel.selected = 0 THEN "" ELSE sel.options[sel.selected]

\* Content of #materials-content.
MaterialsText(text) ==
    [text |-> text, subject |-> "", category |-> "", widget |-> FALSE]

\* app.js:392-394
loadTopics(s, o) ==
    Launch(MatFetch(s, MatReq("topics", "", "")), o, "topics")

\* app.js:430-436
loadGoals(s, o) ==
    IF s.currentUserId = NULL THEN s ELSE Launch(s, o, "goals")

\* app.js:69-76
loadSubjects(s, o) ==
    Launch(MatFetch([s EXCEPT !.subjectSelect = EmptySelect,
                              !.categorySelect = EmptySelect],
                    MatReq("subjects", "", "")),
           o, "subjects")

\* app.js:944-949
loadDashboard(s, o) ==
    IF s.currentUserId = NULL THEN s
    ELSE Launch(Fetch([s EXCEPT !.summaryEl = "Loading..."],
                      Req("dashboard", s.currentUserId, NULL, "")),
                o, "dashboard")

RECURSIVE RunCont(_, _)

\* app.js:912-922
loadHistory(s, cont) ==
    IF s.currentUserId = NULL THEN RunCont(s, cont)
    ELSE IF s.currentThreadId = NULL
    THEN RunCont([s EXCEPT !.historyEl = HistoryText("No active thread")], cont)
    ELSE Fetch([s EXCEPT !.historyEl = HistoryText("Loading...")],
               Req("history", s.currentUserId, s.currentThreadId, cont))

\* app.js:284-287
loadThreads(s, o, cont) ==
    IF s.currentUserId = NULL THEN RunCont(s, cont)
    ELSE Launch(Fetch(s, Req("threads", s.currentUserId, NULL, cont)),
                o, "threads")

\* app.js:618-621 and 634: the end of the restore handler
restoreTail(s) ==
    loadTopics(
        loadSubjects([s EXCEPT !.display.materials = TRUE], "restore"),
        "restore")

\* app.js:760-769: the end of login
loginTail(s) ==
    showNotification(
        loadSubjects(
            [loadGoals(loadTopics(s, "login"), "login")
                EXCEPT !.display.materials = TRUE],
            "login"),
        "success")

(***************************************************************************)
(* What the awaiting async function does once the awaited call is done.    *)
(***************************************************************************)
RunCont(s, cont) ==
    CASE cont = "switch_afterHistory" ->        \* app.js:367-368
           loadThreads(s, "", "")
      [] cont = "create_afterThreads" ->        \* app.js:341
           showNotification(s, "success")
      [] cont = "restore_afterThreads" ->       \* app.js:615-617
           IF s.currentThreadId # NULL
           THEN loadHistory(s, "restore_tail")
           ELSE RunCont(s, "restore_tail")
      [] cont = "restore_tail" ->               \* app.js:618-634
           [restoreTail(s) EXCEPT !.restorePc = "done"]
      [] cont = "login_afterThreads" ->         \* app.js:757-759
           IF s.currentThreadId # NULL
           THEN loadHistory(s, "login_tail")
           ELSE RunCont(s, "login_tail")
      [] cont = "login_tail" ->                 \* app.js:760-769
           [loginTail(s) EXCEPT !.loginPc = "done"]
      [] OTHER -> s

(***************************************************************************)
(* The server, as far as the client sees it.                               *)
(***************************************************************************)
RECURSIVE SortedSeq(_)
SortedSeq(S) ==
    IF S = {} THEN <<>>
    ELSE LET m == CHOOSE x \in S : \A y \in S : x <= y
         IN  <<m>> \o SortedSeq(S \ {m})

\* GET /threads/{userId}: the user's threads, in order of creation.
ThreadList(uid) == SortedSeq(serverThreads[uid])

\* GET /history/{userId}/{threadId}: the number of records returned.
HistoryLength(uid, tid) ==
    IF tid \in serverThreads[uid] THEN serverHistory[tid] ELSE 0

UsedThreadIds == UNION {serverThreads[u] : u \in Users}

InFlight == BagCardinality(network)
Take(req) == network (-) SetToBag({req})

\* A user event is possible while the budget of events lasts.
UserEvent ==
    /\ restorePc # "init"
    /\ ops < MaxOps
    /\ InFlight < MaxInFlight
    /\ ops' = ops + 1

(***************************************************************************)
(* Page load: the DOMContentLoaded handler, app.js:578-635.                *)
(***************************************************************************)

\* app.js:580-583
restoreTheme(s) ==
    IF s.theme.stored = "dark" THEN [s EXCEPT !.theme.dark = TRUE] ELSE s

\* app.js:578-591, 634: up to the validation request.
restoreStart(s) ==
    LET s0 == restoreTheme(s)
    IN  IF s0.localStorage.userId # NULL
        THEN Fetch([s0 EXCEPT !.currentUserId = s0.localStorage.userId,
                              !.restorePc = "validating"],
                   Req("users_restore", s0.localStorage.userId, NULL, ""))
        ELSE loadTopics([s0 EXCEPT !.restorePc = "nosession"], "restore")

\* app.js:592-634: from the validation response on.
restoreValidated(s, res) ==
    CASE res = "ok" ->
           loadThreads(
               showNotification(
                   attachEnterHandler(showAuthenticated(updateUserInfo(
                       [s EXCEPT !.restorePc = "loading"]))),
                   "success"),
               "restore", "restore_afterThreads")
      [] res = "notok" ->
           loadTopics(
               [s EXCEPT !.localStorage = [userId |-> NULL, username |-> NULL],
                         !.restorePc = "invalid"],
               "restore")
      [] OTHER ->
           loadTopics([s EXCEPT !.restorePc = "error"], "restore")

DOMContentLoaded ==
    /\ restorePc = "init"
    /\ Assign(restoreStart(Cur))
    /\ UNCHANGED <<serverThreads, serverHistory, ops>>

RestoreResponse ==
    \E req \in BagToSet(network), res \in Results :
        /\ req.kind = "users_restore"
        /\ Assign(restoreValidated([Cur EXCEPT !.network = Take(req)], res))
        /\ UNCHANGED <<serverThreads, serverHistory, ops>>

(***************************************************************************)
(* login, app.js:705-778.                                                  *)
(***************************************************************************)

\* app.js:705-715
loginStart(s, u) ==
    Fetch([s EXCEPT !.loginPc = "authenticating",
                    !.launched = {l \in @ : l[1] # "login"}],
          Req("login", u, NULL, ""))

\* app.js:716-726 and 770-777
loginAuthenticated(s, req, res) ==
    IF res = "ok"
    THEN Fetch([s EXCEPT !.currentUserId = req.uid,
                         !.localStorage = [userId |-> req.uid,
                                           username |-> req.uid],
                         !.loginPc = "userinfo"],
               Req("users_login", req.uid, NULL, ""))
    ELSE showNotification([s EXCEPT !.loginPc = "failed"], "error")

\* login without the await of loadThreads (app.js:754): the test of
\* app.js:757 runs before the thread list has arrived.
loginUserInfo_noAwait(s, res) ==
    LET s1 == IF res = "ok"
              THEN loadDashboard(updateUserInfo(s), "login")
              ELSE s
    IN  RunCont(
            loadThreads(
                attachEnterHandler(showAuthenticated(
                    [s1 EXCEPT !.loginPc = "loading"])),
                "login", ""),
            "login_afterThreads")

\* app.js:727-754
loginUserInfo(s, res) ==
    LET s1 == IF res = "ok"
              THEN loadDashboard(updateUserInfo(s), "login")
              ELSE s
    IN  loadThreads(
            attachEnterHandler(showAuthenticated(
                [s1 EXCEPT !.loginPc = "loading"])),
            "login", "login_afterThreads")

\* The form is in the auth section; one login runs at a time.
Login ==
    \E u \in Users :
        /\ UserEvent
        /\ display.auth
        /\ loginPc \in {"idle", "done", "failed"}
        /\ Assign(loginStart(Cur, u))
        /\ UNCHANGED <<serverThreads, serverHistory>>

LoginResponse ==
    \E req \in BagToSet(network), res \in Results :
        /\ req.kind = "login"
        /\ Assign(loginAuthenticated([Cur EXCEPT !.network = Take(req)], req, res))
        /\ UNCHANGED <<serverThreads, serverHistory, ops>>

UserInfoResponse ==
    \E req \in BagToSet(network), res \in Results :
        /\ req.kind = "users_login"
        /\ Assign(loginUserInfo([Cur EXCEPT !.network = Take(req)], res))
        /\ UNCHANGED <<serverThreads, serverHistory, ops>>

(***************************************************************************)
(* signOut, app.js:662-677.                                                *)
(***************************************************************************)
signOut(s) ==
    showNotification(
        clearUserInfo(
            [s EXCEPT !.currentUserId = NULL,
                      !.localStorage = [userId |-> NULL, username |-> NULL],
                      !.display.chat = FALSE,
                      !.display.dashboard = FALSE,
                      !.display.auth = TRUE,
                      !.chatMessages = <<>>,
                      !.historyEl = HistoryText(""),
                      !.summaryEl = ""]),
        "success")

\* The sign-out button is offered in authenticated mode.
SignOut ==
    /\ UserEvent
    /\ display.userInfo \/ display.chat
    /\ Assign(signOut(Cur))
    /\ UNCHANGED <<serverThreads, serverHistory>>

(***************************************************************************)
(* Threads and history.                                                    *)
(***************************************************************************)

\* app.js:288-313: from the thread-list response on; data is the list.
loadThreadsResume(s, req, res, data) ==
    IF res = "ok" /\ Len(data) > 0
    THEN LET s1 == [s EXCEPT !.threadTabs = {data[i] : i \in 1..Len(data)}]
         IN  IF s1.currentThreadId = NULL
             THEN loadHistory([s1 EXCEPT !.currentThreadId = data[1]], req.cont)
             ELSE RunCont(s1, req.cont)
    ELSE RunCont(s, req.cont)

\* loadHistory without its try/catch and its else branch (app.js:921,
\* 936-940): a failure ends the awaiting function.
loadHistoryResume_throws(s, req, res, n) ==
    CASE res = "ok" ->
           RunCont(updateContextWarning(
                       [s EXCEPT !.historyEl = HistoryItems(req.tid, n),
                                 !.currentMessagesCount = n * 2]),
                   req.cont)
      [] res = "notok" ->
           [s EXCEPT !.historyEl = HistoryText("Failed to load history")]
      [] OTHER ->
           [s EXCEPT !.historyEl = HistoryText("Error connecting to server")]

\* app.js:923-941: from the history response on; n records were returned
\* for the thread the request was built for (req.tid).
loadHistoryResume(s, req, res, n) ==
    LET s1 == CASE res = "ok" ->
                     updateContextWarning(
                         [s EXCEPT !.historyEl = HistoryItems(req.tid, n),
                                   !.currentMessagesCount = n * 2])
                [] res = "notok" ->
                     [s EXCEPT !.historyEl = HistoryText("Failed to load history")]
                [] OTHER ->
                     [s EXCEPT !.historyEl = HistoryText("Error connecting to server")]
    IN  RunCont(s1, req.cont)

\* switchThread without the reset of the counter (app.js:360 left out).
switchThread_noReset(s, threadId) ==
    IF s.currentThreadId = threadId THEN s
    ELSE loadHistory(
             [updateContextWarning([s EXCEPT !.currentThreadId = threadId])
                EXCEPT !.chatMessages = <<>>],
             "switch_afterHistory")

\* switchThread without the early return of app.js:357.
switchThread_noReturn(s, threadId) ==
    loadHistory(
        [updateContextWarning(
             [s EXCEPT !.currentThreadId = threadId,
                       !.currentMessagesCount = 0])
           EXCEPT !.chatMessages = <<>>],
        "switch_afterHistory")

\* app.js:356-369, up to the history request.
switchThread(s, threadId) ==
    IF s.currentThreadId = threadId THEN s
    ELSE loadHistory(
             [updateContextWarning(
                  [s EXCEPT !.currentThreadId = threadId,
                            !.currentMessagesCount = 0])
                EXCEPT !.chatMessages = <<>>],
             "switch_afterHistory")

\* app.js:322-331
createThread(s) ==
    IF s.currentUserId = NULL THEN s
    ELSE Fetch(s, Req("createThread", s.currentUserId, NULL, ""))

\* app.js:332-347: id is the id of the thread the server created.
createThreadResume(s, res, id) ==
    IF res = "ok"
    THEN loadThreads(
             [s EXCEPT !.currentThreadId = id,
                       !.chatMessages = <<>>,
                       !.currentMessagesCount = 0],
             "", "create_afterThreads")
    ELSE showNotification(s, "error")

ThreadsResponse ==
    \E req \in BagToSet(network), res \in Results :
        /\ req.kind = "threads"
        /\ Assign(loadThreadsResume([Cur EXCEPT !.network = Take(req)],
                                    req, res, ThreadList(req.uid)))
        /\ UNCHANGED <<serverThreads, serverHistory, ops>>

HistoryResponse ==
    \E req \in BagToSet(network), res \in Results :
        /\ req.kind = "history"
        /\ Assign(loadHistoryResume([Cur EXCEPT !.network = Take(req)],
                                    req, res, HistoryLength(req.uid, req.tid)))
        /\ UNCHANGED <<serverThreads, serverHistory, ops>>

\* A click on one of the rendered thread tabs (app.js:300).
SwitchThread ==
    \E threadId \in threadTabs :
        /\ UserEvent
        /\ display.chat
        /\ Assign(switchThread(Cur, threadId))
        /\ UNCHANGED <<serverThreads, serverHistory>>

CreateThread ==
    /\ UserEvent
    /\ display.chat
    /\ Assign(createThread(Cur))
    /\ UNCHANGED <<serverThreads, serverHistory>>

CreateThreadResponse ==
    \E req \in BagToSet(network), res \in Results :
        /\ req.kind = "createThread"
        /\ res = "ok" => ThreadIds \ UsedThreadIds # {}
        /\ LET id == IF res = "ok"
                     THEN CHOOSE x \in ThreadIds \ UsedThreadIds :
                              \A y \in ThreadIds \ UsedThreadIds : x <= y
                     ELSE NULL
           IN  /\ Assign(createThreadResume([Cur EXCEPT !.network = Take(req)],
                                            res, id))
               /\ serverThreads' =
                      IF res = "ok"
                      THEN [serverThreads EXCEPT ![req.uid] = @ \cup {id}]
                      ELSE serverThreads
        /\ UNCHANGED <<serverHistory, ops>>

(***************************************************************************)
(* Chat.                                                                   *)
(***************************************************************************)

\* app.js:780-796: a non-empty message is typed in #chat-input.
sendMessage(s) ==
    IF s.currentUserId = NULL
    THEN [s EXCEPT !.alerts = @ + 1]
    ELSE Fetch(appendMessage(s, "user", s.currentThreadId),
               Req("chat", s.currentUserId, s.currentThreadId, ""))

\* app.js:797-812
sendMessageResume(s, req, res) ==
    IF res = "ok"
    THEN loadDashboard(
             updateContextWarning(
                 [appendMessage(s, "tutor", req.tid)
                    EXCEPT !.currentMessagesCount = @ + 1]),
             "")
    ELSE showNotification(appendMessage(s, "system", req.tid), "error")

SendMessage ==
    /\ UserEvent
    /\ display.chat
    /\ Assign(sendMessage(Cur))
    /\ UNCHANGED <<serverThreads, serverHistory>>

\* POST /chat stores the exchange as one more history record of the thread.
ChatResponse ==
    \E req \in BagToSet(network), res \in Results :
        /\ req.kind = "chat"
        /\ (res = "ok" /\ req.tid # NULL) => serverHistory[req.tid] < MaxHist
        /\ Assign(sendMessageResume([Cur EXCEPT !.network = Take(req)], req, res))
        /\ serverHistory' =
               IF res = "ok" /\ req.tid # NULL
               THEN [serverHistory EXCEPT ![req.tid] = @ + 1]
               ELSE serverHistory
        /\ UNCHANGED <<serverThreads, ops>>

(***************************************************************************)
(* The voice dictation controller, app.js:846-903.  A handle is one        *)
(* SpeechRecognition object: state is "new" until its first start(),       *)
(* "started" while it listens, "stopping" from stop() to its end event,    *)
(* "ended" after the end event; onend tells whether the handler of         *)
(* app.js:884-889 is attached (the handlers of app.js:871-883 always are); *)
(* ends and results count the events the browser delivered to it.          *)
(***************************************************************************)
Transcripts == {"", "hello"}

\* new SpeechRecognition() with the handlers of app.js:871-889.
NewHandle == [state |-> "new", onend |-> TRUE, ends |-> 0, results |-> 0]

\* recognition.start(): throws InvalidStateError on a handle that has
\* started and not ended yet.
start(s, h) ==
    IF s.handles[h].state \in {"new", "ended"}
    THEN [s EXCEPT !.handles[h].state = "started"]
    ELSE [s EXCEPT !.uncaught = @ + 1]

\* recognition.stop(): the end event follows later.
stop(s, h) ==
    IF s.handles[h].state = "started"
    THEN [s EXCEPT !.handles[h].state = "stopping"]
    ELSE s

\* app.js:865-891
startVoiceRecognition(s) ==
    LET h == Len(s.handles) + 1
    IN  start([s EXCEPT !.handles = Append(@, NewHandle),
                        !.recognition = h], h)

\* stopVoiceRecognition that stops the handle with its end handler still
\* attached (app.js:897 left out).
stopVoiceRecognition_attached(s) ==
    IF s.recognition # NULL THEN stop(s, s.recognition) ELSE s

\* app.js:894-903
stopVoiceRecognition(s) ==
    IF s.recognition # NULL
    THEN stop([s EXCEPT !.handles[s.recognition].onend = FALSE],
              s.recognition)
    ELSE s

\* toggleVoice without the test of the capability (app.js:849-853 left
\* out).
toggleVoice_noTest(s, supported) ==
    LET s1 == [s EXCEPT !.voiceEnabled = ~@]
    IN  IF s1.voiceEnabled
        THEN startVoiceRecognition(s1)
        ELSE stopVoiceRecognition(s1)

\* app.js:847-862; supported: window.SpeechRecognition or
\* window.webkitSpeechRecognition exists.
toggleVoice(s, supported) ==
    IF ~supported
    THEN [s EXCEPT !.alerts = @ + 1]
    ELSE LET s1 == [s EXCEPT !.voiceEnabled = ~@]
         IN  IF s1.voiceEnabled
             THEN startVoiceRecognition(s1)
             ELSE stopVoiceRecognition(s1)

\* app.js:780-796 with the text of #chat-input given.
sendMessageOf(s, message) ==
    IF s.currentUserId # NULL /\ message = "" THEN s ELSE sendMessage(s)

\* app.js:871-880, the result handler of handle h; the transcript is
\* already trimmed.
onresult(s, h, transcript) ==
    IF ~s.voiceEnabled THEN s
    ELSE sendMessageOf(
             [s EXCEPT !.voiceFed =
                  Append(@, [handle |-> h, current |-> s.recognition])],
             transcript)

\* the end handler without the restart (app.js:886-888 left out).
onend_noRestart(s) == s

\* app.js:884-889, the end handler.
onend(s) ==
    IF s.voiceEnabled THEN start(s, s.recognition) ELSE s

\* A click on #voice-btn.  The capability is a fact of the browser: it is
\* fixed from the first time the page reads it.
ToggleVoice ==
    \E cap \in IF speechCapability = "unread"
               THEN {"present", "absent"}
               ELSE {speechCapability} :
        /\ restorePc # "init"
        /\ toggles < MaxToggles
        /\ Assign([toggleVoice(Cur, cap = "present")
                      EXCEPT !.speechCapability = cap,
                             !.toggles = @ + 1])
        /\ UNCHANGED <<serverThreads, serverHistory, ops>>

\* The browser delivers a result to handle h: while it listens, or as the
\* final result between stop() and the end event.
RecognitionResult ==
    \E h \in 1..Len(handles), transcript \in Transcripts :
        /\ handles[h].state \in {"started", "stopping"}
        /\ handles[h].results < MaxResults
        /\ InFlight < MaxInFlight
        /\ Assign(onresult([Cur EXCEPT !.handles[h].results = @ + 1],
                           h, transcript))
        /\ UNCHANGED <<serverThreads, serverHistory, ops>>

\* The browser ends handle h (after stop(), an error or a silence) and
\* runs its end handler, if one is attached.
RecognitionEnd ==
    \E h \in 1..Len(handles) :
        /\ handles[h].state \in {"started", "stopping"}
        /\ handles[h].ends < MaxEnds
        /\ LET s1 == [Cur EXCEPT !.handles[h].state = "ended",
                                 !.handles[h].ends = @ + 1]
           IN  Assign(IF s1.handles[h].onend THEN onend(s1) ELSE s1)
        /\ UNCHANGED <<serverThreads, serverHistory, ops>>

(***************************************************************************)
(* The other loaders' responses.                                           *)
(***************************************************************************)

\* app.js:950-1003, the summary panel.
loadDashboardResume(s, res) ==
    [s EXCEPT !.summaryEl =
        CASE res = "ok" -> "summary"
          [] res = "notok" -> "Failed to load dashboard"
          [] OTHER -> "Error connecting to server"]

DashboardResponse ==
    \E req \in BagToSet(network), res \in Results :
        /\ req.kind = "dashboard"
        /\ Assign(loadDashboardResume([Cur EXCEPT !.network = Take(req)], res))
        /\ UNCHANGED <<serverThreads, serverHistory, ops>>

(***************************************************************************)
(* Topics and study materials: the responses to loadTopics, loadSubjects,  *)
(* loadCategories and loadMaterials.                                       *)
(***************************************************************************)

\* GET /materials: the subjects.
Subjects == <<"math", "science">>

\* GET /materials/{subject}: the categories of a subject.
Categories(subject) ==
    CASE subject = "math" -> <<"algebra", "geometry">>
      [] subject = "science" -> <<"biology">>
      [] OTHER -> <<>>

\* GET /materials/{subject}/{category}: whether units are returned, and the
\* title of the material.
HasUnits(subject, category) ==
    \E i \in 1..Len(Categories(subject)) : Categories(subject)[i] = category

Title(subject, category) ==
    CASE category = "algebra" -> "Algebra I"
      [] category = "geometry" -> "Geometry"
      [] OTHER -> "Cells"

\* GET /topics: the topics {name, id}.
Topics == {[name |-> "Algebra I", id |-> 1], [name |-> "Geometry", id |-> 2]}

\* topicIdMap[title], null where the map has no such key (app.js:179-181).
TopicIdOf(map, title) ==
    IF \E e \in map : e.name = title
    THEN (CHOOSE e \in map : e.name = title).id
    ELSE NULL

\* app.js:395-419
loadTopicsResume(s, res) ==
    IF res = "ok" THEN [s EXCEPT !.topicIdMap = Topics] ELSE s

\* app.js:154-163
loadMaterials(s) ==
    MatFetch([s EXCEPT !.materialsContent = MaterialsText("Loading...")],
             MatReq("materials", Value(s.subjectSelect),
                    Value(s.categorySelect)))

\* app.js:111-118
loadCategories(s) ==
    MatFetch([s EXCEPT !.categorySelect = EmptySelect],
             MatReq("categories", Value(s.subjectSelect), ""))

\* app.js:77-97
loadSubjectsResume(s, res) ==
    IF res = "ok"
    THEN LET s1 == [s EXCEPT !.subjectSelect.options = @ \o Subjects]
         IN  IF Len(s1.subjectSelect.options) > 0
             THEN loadCategories([s1 EXCEPT !.subjectSelect.selected = 1])
             ELSE s1
    ELSE s

\* app.js:119-138
loadCategoriesResume(s, req, res) ==
    IF res = "ok"
    THEN LET s1 == [s EXCEPT !.categorySelect.options =
                                 @ \o Categories(req.subject)]
         IN  IF Len(s1.categorySelect.options) > 0
             THEN loadMaterials([s1 EXCEPT !.categorySelect.selected = 1])
             ELSE s1
    ELSE s

\* app.js:164-195
loadMaterialsResume(s, req, res) ==
    CASE res = "ok" /\ HasUnits(req.subject, req.category) ->
           LET id == TopicIdOf(s.topicIdMap, Title(req.subject, req.category))
           IN  [s EXCEPT !.currentMaterialTopicId = id,
                         !.materialsContent =
                             [text |-> "items",
                              subject |-> req.subject,
                              category |-> req.category,
                              widget |-> (s.currentUserId # NULL
                                             /\ id # NULL)]]
      [] res = "fail" ->
           [s EXCEPT !.materialsContent = MaterialsText("Error loading materials")]
      [] OTHER ->
           [s EXCEPT !.materialsContent = MaterialsText("No materials found.")]

\* app.js:103-105: the change event of #material-subject, option i chosen.
onSubjectChange(s, i) ==
    loadCategories([s EXCEPT !.subjectSelect.selected = i])

\* app.js:145-147: the change event of #material-category, option i chosen.
onCategoryChange(s, i) ==
    loadMaterials([s EXCEPT !.categorySelect.selected = i])

MatTake(req) == matNetwork (-) SetToBag({req})

TopicsResponse ==
    \E req \in BagToSet(matNetwork), res \in Results :
        /\ req.kind = "topics"
        /\ Assign(loadTopicsResume([Cur EXCEPT !.matNetwork = MatTake(req)], res))
        /\ UNCHANGED <<serverThreads, serverHistory, ops>>

SubjectsResponse ==
    \E req \in BagToSet(matNetwork), res \in Results :
        /\ req.kind = "subjects"
        /\ Assign(loadSubjectsResume([Cur EXCEPT !.matNetwork = MatTake(req)], res))
        /\ UNCHANGED <<serverThreads, serverHistory, ops>>

CategoriesResponse ==
    \E req \in BagToSet(matNetwork), res \in Results :
        /\ req.kind = "categories"
        /\ Assign(loadCategoriesResume([Cur EXCEPT !.matNetwork = MatTake(req)],
                                       req, res))
        /\ UNCHANGED <<serverThreads, serverHistory, ops>>

\* The user chooses another subject (the listener is attached once the
\* options exist, app.js:86-87).
SubjectChange ==
    \E i \in 1..Len(subjectSelect.options) :
        /\ i # subjectSelect.selected
        /\ UserEvent
        /\ Assign(onSubjectChange(Cur, i))
        /\ UNCHANGED <<serverThreads, serverHistory>>

\* The user chooses another category (app.js:128-129).
CategoryChange ==
    \E i \in 1..Len(categorySelect.options) :
        /\ i # categorySelect.selected
        /\ UserEvent
        /\ Assign(onCategoryChange(Cur, i))
        /\ UNCHANGED <<serverThreads, serverHistory>>

MaterialsResponse ==
    \E req \in BagToSet(matNetwork), res \in Results :
        /\ req.kind = "materials"
        /\ Assign(loadMaterialsResume([Cur EXCEPT !.matNetwork = MatTake(req)],
                                      req, res))
        /\ UNCHANGED <<serverThreads, serverHistory, ops>>

(***************************************************************************)
(* The progress panel and the level-up check of loadDashboard,             *)
(* app.js:966-997, for a dashboard response that is OK.                    *)
(***************************************************************************)

\* XP_THRESHOLDS[i] !== undefined, and XP_THRESHOLDS[i] (0-based, app.js:973)
Defined(i) == (i + 1) \in DOMAIN XP_THRESHOLDS
Threshold(i) == XP_THRESHOLDS[i + 1]

\* app.js:973
currentThreshold(level) ==
    IF Defined(level) THEN Threshold(level) ELSE 0

\* app.js:974
nextThreshold(level) ==
    IF Defined(level + 1) THEN Threshold(level + 1)
    ELSE Threshold(Len(XP_THRESHOLDS) - 1)

Min(a, b) == IF a <= b THEN a ELSE b
Max(a, b) == IF a >= b THEN a ELSE b

\* The bar without Math.min (app.js:979 reduced to Math.max(0, progress)).
computeProgress_noMin(xp, level) ==
    LET cur == currentThreshold(level)
        next == nextThreshold(level)
    IN  IF next > cur
        THEN [divided |-> TRUE,
              num |-> Max(0, 100 * (xp - cur)),
              den |-> next - cur]
        ELSE [divided |-> FALSE, num |-> 0, den |-> 1]

\* app.js:976-980: the width of the bar in percent, as the fraction num / den
\* (den is the divisor of app.js:978; divided tells that the division ran).
\* With den > 0, Math.max(0, Math.min(p, 100)) of p = num0 / den is
\* Max(0, Min(num0, 100 * den)) / den.
computeProgress(xp, level) ==
    LET cur == currentThreshold(level)
        next == nextThreshold(level)
    IN  IF next > cur
        THEN [divided |-> TRUE,
              num |-> Max(0, Min(100 * (xp - cur), 100 * (next - cur))),
              den |-> next - cur]
        ELSE [divided |-> FALSE, num |-> 0, den |-> 1]

\* Number.prototype.toString of a non-negative integer: its decimal digits.
RECURSIVE toString(_)
toString(n) ==
    IF n < 10 THEN <<n>> ELSE toString(n \div 10) \o <<n % 10>>

\* parseInt(str, 10) of a non-empty string of digits.
RECURSIVE parseInt(_)
parseInt(str) ==
    IF Len(str) = 1 THEN str[1]
    ELSE 10 * parseInt(SubSeq(str, 1, Len(str) - 1)) + str[Len(str)]

\* app.js:990-991: getItem returns null while nothing is stored.
lastLevel(stored) == IF stored # <<>> THEN parseInt(stored) ELSE 0

\* The level-up check firing on an equal level too (>= for > at app.js:992).
levelUpCheck_orEqual(st, level) ==
    [levelUps |-> IF level >= lastLevel(st.lastLevelStored)
                  THEN st.levelUps + 1 ELSE st.levelUps,
     lastLevelStored |-> toString(level),
     lastLevelWrites |-> st.lastLevelWrites + 1]

\* The level-up check persisting the level only when it fired (app.js:996
\* moved into the if of app.js:992).
levelUpCheck_persistOnFire(st, level) ==
    IF level > lastLevel(st.lastLevelStored)
    THEN [levelUps |-> st.levelUps + 1,
          lastLevelStored |-> toString(level),
          lastLevelWrites |-> st.lastLevelWrites + 1]
    ELSE st

\* app.js:988-996 on st = [levelUps, lastLevelStored, lastLevelWrites]
levelUpCheck(st, level) ==
    [levelUps |-> IF level > lastLevel(st.lastLevelStored)
                  THEN st.levelUps + 1 ELSE st.levelUps,
     lastLevelStored |-> toString(level),
     lastLevelWrites |-> st.lastLevelWrites + 1]

\* #progress-info before the first snapshot.
NoProgress ==
    [level |-> 0, xp |-> 0, next |-> 0,
     progress |-> [divided |-> FALSE, num |-> 0, den |-> 1]]

(***************************************************************************)
(* The specification.                                                      *)
(***************************************************************************)
InitThreads(u) == IF u = 1 THEN {1, 2} ELSE {u + 1}

Init ==
    /\ currentUserId = NULL
    /\ currentThreadId = NULL
    /\ currentMessagesCount = 0
    /\ \E u \in {NULL, 1} : localStorage = [userId |-> u, username |-> u]
    /\ display = [chat |-> FALSE, dashboard |-> FALSE, auth |-> TRUE,
                  materials |-> FALSE, userInfo |-> FALSE]
    /\ contextWarning = FALSE
    /\ chatMessages = <<>>
    /\ historyEl = HistoryText("")
    /\ summaryEl = ""
    /\ threadTabs = {}
    /\ notification = "none"
    /\ alerts = 0
    /\ keypressHandlers = 0
    /\ network = EmptyBag
    /\ serverThreads = [u \in Users |-> InitThreads(u)]
    /\ serverHistory = [t \in ThreadIds |->
                            IF t = 1 THEN 1 ELSE IF t = 2 THEN MaxHist ELSE 0]
    /\ restorePc = "init"
    /\ loginPc = "idle"
    /\ launched = {}
    /\ ops = 0
    /\ now = 0
    /\ notifEl = [display |-> FALSE, text |-> ""]
    /\ levelEl = [display |-> FALSE, opacity |-> 0, text |-> ""]
    /\ timers = {}
    /\ shows = 0
    /\ notifMounted = "unread"
    /\ levelMounted = "unread"
    /\ progressInfo = NoProgress
    /\ lastLevelStored = <<>>
    /\ levelUps = 0
    /\ lastLevelWrites = 0
    /\ snapshots = 0
    /\ serverLevel = 0
    /\ dashResponses = EmptyBag
    /\ levelUpLog = <<>>
    /\ topicIdMap = {}
    /\ currentMaterialTopicId = NULL
    /\ subjectSelect = EmptySelect
    /\ categorySelect = EmptySelect
    /\ materialsContent = MaterialsText("")
    /\ matNetwork = EmptyBag
    /\ speechCapability = "unread"
    /\ voiceEnabled = FALSE
    /\ recognition = NULL
    /\ handles = <<>>
    /\ voiceFed = <<>>
    /\ uncaught = 0
    /\ toggles = 0
    /\ theme = [dark |-> FALSE, stored |-> "none"]
    /\ reload = [count |-> 0, thread |-> NULL, dark |-> FALSE]
    /\ page = "none"
    /\ userId = NULL
    /\ ctxThreadId = NULL
    /\ ctxXp = 0
    /\ messages = <<>>
    /\ input = ""
    /\ pageNetwork = EmptyBag
    /\ unhandledRejections = 0
    /\ consoleErrors = 0
    /\ pageOps = 0

Next ==
    \/ DOMContentLoaded
    \/ RestoreResponse
    \/ Login
    \/ LoginResponse
    \/ UserInfoResponse
    \/ SignOut
    \/ ThreadsResponse
    \/ HistoryResponse
    \/ SwitchThread
    \/ CreateThread
    \/ CreateThreadResponse
    \/ SendMessage
    \/ ChatResponse
    \/ DashboardResponse

Spec == Init /\ [][Next]_vars

(***************************************************************************)
(* The notification scheduler: showNotification (app.js:533-543) and       *)
(* showLevelUp (app.js:260-275) with their setTimeout callbacks.  A timer  *)
(* fires when the clock reaches its due time; the clock does not pass a    *)
(* due timer.                                                              *)
(***************************************************************************)
Msgs == {"A", "B"}

\* Time between two events of the user, in ms.
Delays == {100, 3900}

\* setTimeout(act, delay)
setTimeout(T, act, delay) == T \cup {[due |-> now + delay, act |-> act]}

\* The callbacks that are due run before the next call of the user.
NoTimerDue == \A tm \in timers : tm.due > now

\* What getElementById finds.  Whether the page has the element is a
\* fact of the document: it is fixed from the first time it is looked up.
Lookups(mounted) ==
    IF mounted = "unread" THEN {"present", "absent"} ELSE {mounted}

\* showNotification that sets its timer before it looks at the element
\* (app.js:535 after app.js:540-542).
showNotificationBanner_timerFirst(st, mounted, m) ==
    [el |-> IF mounted THEN [display |-> TRUE, text |-> m] ELSE st.el,
     timers |-> setTimeout(st.timers, "hideNotification", NOTIFICATION_MS)]

\* app.js:533-543 on st = [el, timers]: the element and the timers;
\* mounted: #notification exists.
showNotificationBanner(st, mounted, m) ==
    IF ~mounted THEN st
    ELSE [el |-> [display |-> TRUE, text |-> m],
          timers |-> setTimeout(st.timers, "hideNotification",
                                NOTIFICATION_MS)]

\* app.js:260-275 on st = [el, timers]; mounted: #level-notification
\* exists.
showLevelUpBanner(st, mounted, m) ==
    IF ~mounted THEN st
    ELSE [el |-> [display |-> TRUE, opacity |-> 1, text |-> m],
          timers |-> setTimeout(st.timers, "fadeLevelUp", LEVELUP_MS)]

ShowNotification ==
    \E m \in Msgs, found \in Lookups(notifMounted) :
        /\ shows < MaxShows
        /\ NoTimerDue
        /\ shows' = shows + 1
        /\ notifMounted' = found
        /\ LET st == showNotificationBanner([el |-> notifEl, timers |-> timers],
                                            found = "present", m)
           IN  /\ notifEl' = st.el
               /\ timers' = st.timers
        /\ UNCHANGED <<now, levelEl, levelMounted>>
        /\ UNCHANGED sessionVars
        /\ UNCHANGED matVars
        /\ UNCHANGED voiceVars
        /\ UNCHANGED reloadVars
        /\ UNCHANGED pageVars
        /\ UNCHANGED progressVars

ShowLevelUp ==
    \E m \in Msgs, found \in Lookups(levelMounted) :
        /\ shows < MaxShows
        /\ NoTimerDue
        /\ shows' = shows + 1
        /\ levelMounted' = found
        /\ LET st == showLevelUpBanner([el |-> levelEl, timers |-> timers],
                                       found = "present", m)
           IN  /\ levelEl' = st.el
               /\ timers' = st.timers
        /\ UNCHANGED <<now, notifEl, notifMounted>>
        /\ UNCHANGED sessionVars
        /\ UNCHANGED matVars
        /\ UNCHANGED voiceVars
        /\ UNCHANGED reloadVars
        /\ UNCHANGED pageVars
        /\ UNCHANGED progressVars

\* The callback of a timer that is due.
TimerFires ==
    \E tm \in timers :
        /\ tm.due <= now
        /\ CASE tm.act = "hideNotification" ->      \* app.js:540-542
                  /\ notifEl' = [notifEl EXCEPT !.display = FALSE]
                  /\ timers' = timers \ {tm}
                  /\ UNCHANGED levelEl
             [] tm.act = "fadeLevelUp" ->           \* app.js:269-274
                  /\ levelEl' = [levelEl EXCEPT !.opacity = 0]
                  /\ timers' = setTimeout(timers \ {tm}, "removeLevelUp", FADE_MS)
                  /\ UNCHANGED notifEl
             [] OTHER ->                            \* app.js:271-273
                  /\ levelEl' = [levelEl EXCEPT !.display = FALSE]
                  /\ timers' = timers \ {tm}
                  /\ UNCHANGED notifEl
        /\ UNCHANGED <<now, shows, notifMounted, levelMounted>>
        /\ UNCHANGED sessionVars
        /\ UNCHANGED matVars
        /\ UNCHANGED voiceVars
        /\ UNCHANGED reloadVars
        /\ UNCHANGED pageVars
        /\ UNCHANGED progressVars

\* Time passes while a timer is pending: to the next due timer, or by one
\* of Delays if no timer is due before.
TimePasses ==
    \E t \in {now + d : d \in Delays} \cup {tm.due : tm \in timers} :
        /\ timers # {}
        /\ t > now
        /\ t <= MaxTime
        /\ \A tm \in timers : t <= tm.due
        /\ now' = t
        /\ UNCHANGED <<notifEl, levelEl, timers, shows, notifMounted,
                       levelMounted>>
        /\ UNCHANGED sessionVars
        /\ UNCHANGED matVars
        /\ UNCHANGED voiceVars
        /\ UNCHANGED reloadVars
        /\ UNCHANGED pageVars
        /\ UNCHANGED progressVars

NextNotify ==
    \/ ShowNotification
    \/ ShowLevelUp
    \/ TimerFires
    \/ TimePasses

SpecNotify == Init /\ [][NextNotify]_vars

(***************************************************************************)
(* The voice controller in a session: the page load with its responses,    *)
(* the voice button and the events of the recognition handles.  The chat   *)
(* requests that the result handler issues stay in flight: their responses *)
(* touch no state of the controller.                                       *)
(***************************************************************************)
NextVoice ==
    \/ DOMContentLoaded
    \/ RestoreResponse
    \/ ThreadsResponse
    \/ HistoryResponse
    \/ ToggleVoice
    \/ RecognitionResult
    \/ RecognitionEnd

SpecVoice == Init /\ [][NextVoice]_vars

(***************************************************************************)
(* Theme and reload.  A reload of the page ends every callback and request *)
(* of the old page and starts the script again: the variables of app.js    *)
(* and the document are those of a fresh page, localStorage and the server *)
(* are kept.                                                               *)
(***************************************************************************)

\* toggleTheme that does not save the preference (app.js:569-574 left
\* out).
toggleTheme_notSaved(s) == [s EXCEPT !.theme.dark = ~@]

\* app.js:566-575
toggleTheme(s) ==
    LET dark == ~s.theme.dark
    IN  [s EXCEPT !.theme = [dark |-> dark,
                             stored |-> IF dark THEN "dark" ELSE "light"]]

\* The fresh page: every variable of app.js and every element as at the
\* start; localStorage (the session, the theme) stays, and so does what the
\* browser is.  reload notes the thread and the theme of the page that is
\* left.
freshPage(s) ==
    [s EXCEPT !.currentUserId = NULL,
              !.currentThreadId = NULL,
              !.currentMessagesCount = 0,
              !.display = [chat |-> FALSE, dashboard |-> FALSE, auth |-> TRUE,
                           materials |-> FALSE, userInfo |-> FALSE],
              !.contextWarning = FALSE,
              !.chatMessages = <<>>,
              !.historyEl = HistoryText(""),
              !.summaryEl = "",
              !.threadTabs = {},
              !.notification = "none",
              !.keypressHandlers = 0,
              !.network = EmptyBag,
              !.restorePc = "init",
              !.loginPc = "idle",
              !.launched = {},
              !.topicIdMap = {},
              !.currentMaterialTopicId = NULL,
              !.subjectSelect = EmptySelect,
              !.categorySelect = EmptySelect,
              !.materialsContent = MaterialsText(""),
              !.matNetwork = EmptyBag,
              !.voiceEnabled = FALSE,
              !.recognition = NULL,
              !.handles = <<>>,
              !.theme.dark = FALSE,
              !.reload = [count |-> s.reload.count + 1,
                          thread |-> s.currentThreadId,
                          dark |-> s.theme.dark]]

\* A click on the theme button.
ToggleTheme ==
    /\ restorePc # "init"
    /\ Assign(toggleTheme(Cur))
    /\ UNCHANGED <<serverThreads, serverHistory, ops>>

\* The user reloads the page.
Reload ==
    /\ restorePc # "init"
    /\ reload.count < MaxReloads
    /\ Assign(freshPage(Cur))
    /\ UNCHANGED <<serverThreads, serverHistory, ops>>

NextReload ==
    \/ DOMContentLoaded
    \/ RestoreResponse
    \/ ThreadsResponse
    \/ HistoryResponse
    \/ SwitchThread
    \/ ToggleTheme
    \/ Reload

SpecReload == Init /\ [][NextReload]_vars

(***************************************************************************)
(* The progress tracker: the OK branch of loadDashboard (app.js:951-997)   *)
(* for a snapshot {xp, level} reported by the server.  The summary panel   *)
(* of the same callback is DashboardResponse; the banner that showLevelUp  *)
(* shows is ShowLevelUp.                                                   *)
(***************************************************************************)

\* xp reported by the server: at, between and beyond the thresholds.
XpValues == {0, 50, 100, 175, 250, 999, 1000, 1500, 2000, 2500}

DashboardSnapshot ==
    \E xp \in XpValues, level \in 0..MaxLevel :
        /\ snapshots < MaxSnapshots
        /\ snapshots' = snapshots + 1
        /\ progressInfo' = [level |-> level, xp |-> xp,
                            next |-> nextThreshold(level),
                            progress |-> computeProgress(xp, level)]
        /\ LET st == levelUpCheck(
                         [levelUps |-> levelUps,
                          lastLevelStored |-> lastLevelStored,
                          lastLevelWrites |-> lastLevelWrites], level)
           IN  /\ levelUps' = st.levelUps
               /\ lastLevelStored' = st.lastLevelStored
               /\ lastLevelWrites' = st.lastLevelWrites
        /\ UNCHANGED <<serverLevel, dashResponses, levelUpLog>>
        /\ UNCHANGED sessionVars
        /\ UNCHANGED matVars
        /\ UNCHANGED voiceVars
        /\ UNCHANGED reloadVars
        /\ UNCHANGED pageVars
        /\ UNCHANGED notifyVars

NextProgress ==
    \/ DashboardSnapshot

SpecProgress == Init /\ [][NextProgress]_vars

(***************************************************************************)
(* The progress tracker with its requests: loadDashboard is called by      *)
(* login, after each tutor reply and after a completed goal session        *)
(* (app.js:456, 735, 804), so several requests can be in flight.  The      *)
(* server answers a request with the level the user has when it serves     *)
(* it; the level on the server only rises; the responses arrive in any     *)
(* order.                                                                  *)
(***************************************************************************)

\* The user gains a level on the server.
LevelRises ==
    /\ serverLevel < MaxLevel
    /\ serverLevel' = serverLevel + 1
    /\ UNCHANGED <<progressInfo, lastLevelStored, levelUps, lastLevelWrites,
                   snapshots, dashResponses, levelUpLog>>
    /\ UNCHANGED sessionVars
    /\ UNCHANGED matVars
    /\ UNCHANGED voiceVars
    /\ UNCHANGED reloadVars
    /\ UNCHANGED pageVars
    /\ UNCHANGED notifyVars

\* GET /dashboard of a loadDashboard call is served (app.js:948).
DashboardServed ==
    /\ snapshots + BagCardinality(dashResponses) < MaxSnapshots
    /\ dashResponses' = dashResponses (+) SetToBag({serverLevel})
    /\ UNCHANGED <<progressInfo, lastLevelStored, levelUps, lastLevelWrites,
                   snapshots, serverLevel, levelUpLog>>
    /\ UNCHANGED sessionVars
    /\ UNCHANGED matVars
    /\ UNCHANGED voiceVars
    /\ UNCHANGED reloadVars
    /\ UNCHANGED pageVars
    /\ UNCHANGED notifyVars

\* A response in flight arrives with res.ok (app.js:949-997); its xp is
\* the threshold of its level.
DashboardArrives ==
    \E level \in BagToSet(dashResponses) :
        /\ dashResponses' = dashResponses (-) SetToBag({level})
        /\ snapshots' = snapshots + 1
        /\ progressInfo' = [level |-> level, xp |-> currentThreshold(level),
                            next |-> nextThreshold(level),
                            progress |-> computeProgress(currentThreshold(level),
                                                         level)]
        /\ LET st == levelUpCheck(
                         [levelUps |-> levelUps,
                          lastLevelStored |-> lastLevelStored,
                          lastLevelWrites |-> lastLevelWrites], level)
           IN  /\ levelUps' = st.levelUps
               /\ lastLevelStored' = st.lastLevelStored
               /\ lastLevelWrites' = st.lastLevelWrites
               /\ levelUpLog' = IF st.levelUps > levelUps
                                THEN Append(levelUpLog, level)
                                ELSE levelUpLog
        /\ UNCHANGED serverLevel
        /\ UNCHANGED sessionVars
        /\ UNCHANGED matVars
        /\ UNCHANGED voiceVars
        /\ UNCHANGED reloadVars
        /\ UNCHANGED pageVars
        /\ UNCHANGED notifyVars

NextLevels ==
    \/ LevelRises
    \/ DashboardServed
    \/ DashboardArrives

SpecLevels == Init /\ [][NextLevels]_vars

(***************************************************************************)
(* The page load with the topics and materials responses: the restore      *)
(* handler launches loadSubjects and loadTopics at its end; their          *)
(* responses arrive in any order.                                          *)
(***************************************************************************)
NextMaterials ==
    \/ DOMContentLoaded
    \/ RestoreResponse
    \/ ThreadsResponse
    \/ HistoryResponse
    \/ TopicsResponse
    \/ SubjectsResponse
    \/ CategoriesResponse
    \/ MaterialsResponse
    \/ SubjectChange
    \/ CategoryChange

SpecMaterials == Init /\ [][NextMaterials]_vars

(***************************************************************************)
(* The React Chat page: pages/Chat.jsx under context/AppContext.jsx, with  *)
(* the requests of services/api.js.  request() throws for a response that  *)
(* is not OK and for a transport error (api.js:3-10).                      *)
(***************************************************************************)

\* What the user types into the input.
Inputs == {"", "hello"}

\* A field of a response body that is missing or null.
undefined == "<undefined>"

\* The body of the response of POST /chat: its fields response and reply
\* (Chat.jsx:31-33).
Bodies == [response : {undefined, "", "answer"},
           reply : {undefined, "hello back"}]

NoBody == [response |-> undefined, reply |-> undefined]

\* A request in flight; body is what the server answers a chat request with
\* when it answers OK.
PageReq(kind, uid, tid, text, x, body) ==
    [kind |-> kind, uid |-> uid, tid |-> tid, input |-> text, xp |-> x,
     body |-> body]

PageTake(req) == pageNetwork (-) SetToBag({req})

\* Chat.jsx:18-21: a history of n records as 2n messages.
RECURSIVE formatted(_)
formatted(n) ==
    IF n = 0 THEN <<>>
    ELSE formatted(n - 1) \o <<[sender |-> "user", text |-> "message"],
                               [sender |-> "bot", text |-> "response"]>>

\* Chat.jsx:12-26: the effect that runs when userId or currentThreadId
\* changed; net is the bag of requests.
historyEffect(net, uid, tid) ==
    IF uid # NULL /\ tid # NULL
    THEN net (+) SetToBag({PageReq("history", uid, tid, "", 0, NoBody)})
    ELSE net

PageEvent ==
    /\ page = "chat"
    /\ pageOps < MaxPageOps
    /\ pageOps' = pageOps + 1

\* AppContext.jsx:6-8 and the first render of Chat: the context starts from
\* localStorage; stored is the persisted 'currentThreadId'.
ChatMount ==
    \E stored \in {NULL} \cup ThreadIds :
        /\ page = "none"
        /\ page' = "chat"
        /\ userId' = localStorage.userId
        /\ ctxThreadId' = stored
        /\ pageNetwork' = historyEffect(pageNetwork, localStorage.userId, stored)
        /\ UNCHANGED <<ctxXp, messages, input, unhandledRejections,
                       consoleErrors, pageOps>>
        /\ UNCHANGED <<sessionVars, notifyVars, progressVars, matVars, voiceVars,
                   reloadVars>>

\* ThreadsTabs.jsx:19: a click on the tab of thread t of the user.
SelectThread ==
    \E t \in ThreadIds :
        /\ PageEvent
        /\ userId # NULL
        /\ t \in serverThreads[userId]
        /\ t # ctxThreadId
        /\ ctxThreadId' = t
        /\ pageNetwork' = historyEffect(pageNetwork, userId, t)
        /\ UNCHANGED <<page, userId, ctxXp, messages, input,
                       unhandledRejections, consoleErrors>>
        /\ UNCHANGED <<sessionVars, notifyVars, progressVars, matVars, voiceVars,
                   reloadVars>>

\* Chat.jsx:48
TypeInput ==
    \E text \in Inputs :
        /\ PageEvent
        /\ text # input
        /\ input' = text
        /\ UNCHANGED <<page, userId, ctxThreadId, ctxXp, messages, pageNetwork,
                       unhandledRejections, consoleErrors>>
        /\ UNCHANGED <<sessionVars, notifyVars, progressVars, matVars, voiceVars,
                   reloadVars>>

replyText_replyFirst(res) ==
    IF res.reply # undefined THEN res.reply
    ELSE IF res.response # undefined THEN res.response
    ELSE ""

\* Chat.jsx:33: res.response ?? res.reply ?? ''
replyText(res) ==
    IF res.response # undefined THEN res.response
    ELSE IF res.reply # undefined THEN res.reply
    ELSE ""

\* Chat.jsx:34: the updater given to setMessages, applied to the list m.
appendPair(m, text, res) ==
    m \o <<[sender |-> "user", text |-> text],
           [sender |-> "bot", text |-> replyText(res)]>>

\* Chat.jsx:28-30: send up to its await.
Send ==
    \E body \in Bodies :
    /\ PageEvent
    /\ pageNetwork' =
           IF input = "" THEN pageNetwork
           ELSE pageNetwork (+)
                    SetToBag({PageReq("chat", userId, ctxThreadId, input, ctxXp,
                                      body)})
    /\ UNCHANGED <<page, userId, ctxThreadId, ctxXp, messages, input,
                   unhandledRejections, consoleErrors>>
    /\ UNCHANGED <<sessionVars, notifyVars, progressVars, matVars, voiceVars,
                   reloadVars>>

\* Chat.jsx:30-36: send from its await on.  input and xp are those of the
\* render in which send was called (req.input, req.xp).  A request that
\* throws rejects the promise of send, which nothing handles.
ChatReply ==
    \E req \in BagToSet(pageNetwork), res \in Results :
        /\ req.kind = "chat"
        /\ pageNetwork' = PageTake(req)
        /\ IF res = "ok"
           THEN /\ messages' = appendPair(messages, req.input, req.body)
                /\ input' = ""
                /\ ctxXp' = req.xp + 1
                /\ UNCHANGED unhandledRejections
           ELSE /\ unhandledRejections' = unhandledRejections + 1
                /\ UNCHANGED <<messages, input, ctxXp>>
        /\ UNCHANGED <<page, userId, ctxThreadId, consoleErrors, pageOps>>
        /\ UNCHANGED <<sessionVars, notifyVars, progressVars, matVars, voiceVars,
                   reloadVars>>

\* Chat.jsx:15-24: the history arrives (n records) or the request throws.
HistoryReply ==
    \E req \in BagToSet(pageNetwork), res \in Results :
        /\ req.kind = "history"
        /\ pageNetwork' = PageTake(req)
        /\ IF res = "ok"
           THEN /\ messages' = formatted(HistoryLength(req.uid, req.tid))
                /\ UNCHANGED consoleErrors
           ELSE /\ consoleErrors' = consoleErrors + 1
                /\ UNCHANGED messages
        /\ UNCHANGED <<page, userId, ctxThreadId, ctxXp, input,
                       unhandledRejections, pageOps>>
        /\ UNCHANGED <<sessionVars, notifyVars, progressVars, matVars, voiceVars,
                   reloadVars>>

NextChatPage ==
    \/ ChatMount
    \/ SelectThread
    \/ TypeInput
    \/ Send
    \/ ChatReply
    \/ HistoryReply

SpecChatPage == Init /\ [][NextChatPage]_vars

(***************************************************************************)
(* Properties.                                                             *)
(***************************************************************************)

\* The step takes request req out of the network (its response arrives).
Arrives(req) == CopiesIn(req, network') < CopiesIn(req, network)

InitialThreadIds == UNION {InitThreads(u) : u \in Users}

\* C1: a history response that was requested for a thread other than the
\* one that is active when it arrives is not applied: the step changes
\* neither the displayed history nor the message counter nor the context
\* flag.
C1_StaleHistoryNotApplied ==
    [][\A req \in BagToSet(network) :
          (/\ req.kind = "history"
           /\ currentThreadId # NULL
           /\ req.tid # currentThreadId
           /\ Arrives(req))
          => /\ historyEl' = historyEl
             /\ chatMessages' = chatMessages
             /\ currentMessagesCount' = currentMessagesCount
             /\ contextWarning' = contextWarning]_vars

\* C2: on a newly created thread whose chat shows exactly one complete
\* exchange (the user's message and the tutor's reply, stored by the server
\* as the thread's only record), the message counter is 2 and the context
\* flag is false: an exchange raises the counter by exactly 2.
C2_ExchangeAddsTwo ==
    \A t \in ThreadIds \ InitialThreadIds :
        (/\ currentThreadId = t
         /\ chatMessages = <<[type |-> "user", tid |-> t],
                             [type |-> "tutor", tid |-> t]>>
         /\ serverHistory[t] = 1
         /\ historyEl.tid # t)
        => /\ currentMessagesCount = 2
           /\ ~contextWarning

\* C3: the context warning is visible exactly when the message counter
\* exceeds the threshold, in every state between two callbacks.
C3_WarningIffOverThreshold ==
    contextWarning = (currentMessagesCount > CONTEXT_THRESHOLD)

\* The step is the user's switch to another thread: the only user event
\* that changes the active thread.
SwitchStep == ops' = ops + 1 /\ currentThreadId' # currentThreadId

\* C4: a switch to another thread leaves the counter at 0 and the flag
\* false with the history request of the new thread still in flight; and
\* when the history requested by a switch arrives with N records, the
\* counter is 2N and the flag is 2N > 10.
C4_SwitchResetsThenHistorySets ==
    [][/\ SwitchStep =>
            /\ currentMessagesCount' = 0
            /\ ~contextWarning'
            /\ currentUserId # NULL =>
                   \E req \in BagToSet(network') :
                       /\ req.kind = "history"
                       /\ req.tid = currentThreadId'
                       /\ CopiesIn(req, network') > CopiesIn(req, network)
       /\ \A req \in BagToSet(network) :
            LET N == HistoryLength(req.uid, req.tid)
            IN  (/\ req.kind = "history"
                 /\ req.cont = "switch_afterHistory"
                 /\ Arrives(req)
                 /\ historyEl' = HistoryItems(req.tid, N))
                => /\ currentMessagesCount' = 2 * N
                   /\ contextWarning' = (2 * N > CONTEXT_THRESHOLD)]_vars

\* C4 witness: the user has switched to thread 2, whose history of MaxHist
\* records has arrived: the counter is twice that and the warning shows.
C4_Witness ==
    /\ currentThreadId = 2
    /\ ops >= 1
    /\ historyEl = HistoryItems(2, MaxHist)
    /\ currentMessagesCount = 2 * MaxHist
    /\ contextWarning

\* C5: while the hide timer of the banner shown last is still pending, the
\* banner is visible: an earlier timer of the same kind does not hide it
\* (and likewise for the level-up banner and its fade timer).
C5_ReplacementStaysVisible ==
    /\ (\E tm \in timers : tm.act = "hideNotification" /\ tm.due > now)
           => notifEl.display
    /\ (\E tm \in timers : tm.act = "fadeLevelUp" /\ tm.due > now)
           => (levelEl.display /\ levelEl.opacity = 1)

\* The step is signOut: the only user event that changes the sections.
SignOutStep == ops' = ops + 1 /\ display' # display

\* C6: signOut removes the persisted session and leaves all derived state
\* at its initial value.
C6_SignOutResetsState ==
    [][SignOutStep =>
          /\ localStorage' = [userId |-> NULL, username |-> NULL]
          /\ currentUserId' = NULL
          /\ currentThreadId' = NULL
          /\ currentMessagesCount' = 0
          /\ chatMessages' = <<>>
          /\ historyEl' = HistoryText("")
          /\ summaryEl' = ""]_vars

\* C7: once the validation of a persisted session has failed (non-OK or
\* transport error) and before any user event, the persisted session is
\* cleared, no user is set, the authenticated sections are hidden and
\* nothing was alerted or shown as an error.
C7_FailedRestoreClearsSession ==
    (restorePc \in {"invalid", "error"} /\ ops = 0)
    => /\ localStorage = [userId |-> NULL, username |-> NULL]
       /\ currentUserId = NULL
       /\ ~display.chat /\ ~display.dashboard /\ display.auth
       /\ alerts = 0
       /\ notification # "error"

\* C8: a user is set exactly when the interface is in authenticated mode.
C8_UserIffAuthenticatedMode ==
    (currentUserId # NULL)
        <=> (display.chat /\ display.dashboard /\ ~display.auth)

Loaders == {"threads", "goals", "topics", "dashboard", "subjects"}

\* C9: from the moment the validation of the restored session has
\* succeeded, all five loaders have been launched by the restore; none
\* waits for the thread list or the history.
C9_RestoreLaunchesAllLoaders ==
    restorePc \in {"loading", "done"}
        => \A k \in Loaders : <<"restore", k>> \in launched

\* C10: when a login whose request returned OK has run to its end, the
\* session is persisted (before any other user event) and all five loaders
\* have been launched by it, whatever the user-info request returned.
C10_LoginLaunchesAllLoaders ==
    loginPc = "done"
        => /\ ops = 1 => (localStorage.userId = currentUserId
                              /\ currentUserId # NULL)
           /\ \A k \in Loaders : <<"login", k>> \in launched

\* C11: after any sequence of restores, logins and sign-outs, at most one
\* Enter-key handler is attached to #chat-input, and exactly one while the
\* chat section is shown.
C11_SingleEnterHandler ==
    /\ keypressHandlers <= 1
    /\ display.chat => keypressHandlers = 1

\* C12: no chat request is in flight without an authenticated user or
\* without an active thread, and no message was appended or counted for a
\* thread that is null: sendMessage returns before it appends, counts or
\* sends.
C12_NoChatWithoutThread ==
    /\ \A req \in BagToSet(network) :
           req.kind = "chat" => (req.uid # NULL /\ req.tid # NULL)
    /\ \A i \in 1..Len(chatMessages) :
           chatMessages[i].type = "user" => chatMessages[i].tid # NULL

\* C13: when the level is greater than the last index of XP_THRESHOLDS,
\* the progress shown is 0 for every xp.
C13_FlatBeyondTable ==
    (snapshots > 0 /\ progressInfo.level > Len(XP_THRESHOLDS) - 1)
        => progressInfo.progress.num = 0

\* C14: for every xp >= 0 and level >= 0 the progress computation divides
\* by no zero and the bar width is within 0..100 percent.
C14_ProgressWithinBounds ==
    snapshots > 0 =>
        /\ progressInfo.progress.den # 0
        /\ progressInfo.progress.num >= 0
        /\ progressInfo.progress.num <= 100 * progressInfo.progress.den

\* C14 witness: xp 2500 at level 4 (1000..2000) was divided by 1000 and
\* clamped to 100 percent.
C14_Witness ==
    /\ snapshots > 0
    /\ progressInfo.xp = 2500 /\ progressInfo.level = 4
    /\ progressInfo.progress.divided
    /\ progressInfo.progress.den = 1000
    /\ progressInfo.progress.num = 100 * 1000

\* C15: the snapshot whose level exceeds the persisted lastLevel calls
\* showLevelUp exactly once, and a snapshot whose level is equal to or lower
\* than the previous snapshot's level does not call it.
C15_LevelUpOncePerIncrease ==
    [][snapshots' = snapshots + 1 =>
          /\ progressInfo'.level > lastLevel(lastLevelStored)
                 => levelUps' = levelUps + 1
          /\ (snapshots > 0 /\ progressInfo'.level <= progressInfo.level)
                 => levelUps' = levelUps]_vars

\* C15 witness: three snapshots, the first of a level above the persisted
\* one and two more of that level or below: one call of showLevelUp.
C15_Witness ==
    /\ snapshots = 3
    /\ levelUps = 1
    /\ progressInfo.level = 2

\* C16: after a snapshot, the persisted lastLevel is the snapshot's level,
\* whether or not showLevelUp was called, and it was written once per
\* snapshot.
C16_LastLevelFollowsSnapshot ==
    snapshots > 0 =>
        /\ lastLevelStored # <<>>
        /\ parseInt(lastLevelStored) = progressInfo.level
        /\ lastLevelWrites = snapshots

\* C16 witness: the level went up to 3 (one call) and then down to 1: the
\* persisted level is 1 after two writes.
C16_Witness ==
    /\ snapshots = 2
    /\ levelUps = 1
    /\ progressInfo.level = 1
    /\ lastLevelStored = <<1>>
    /\ lastLevelWrites = 2

\* The continuations of the history requests of login and of the restore.
BootConts == {"login_afterThreads", "login_tail",
              "restore_afterThreads", "restore_tail"}

\* C17: a history request is sent only for the thread that is active and
\* never for a null thread; and a history request of login or of the
\* restore is sent only by the step that processes the response to their
\* thread-list request, or by the step that processes the response to an
\* earlier history request of theirs (sent after the thread list): never
\* before the thread-list response.
C17_HistoryAfterThreadList ==
    [][\A req \in BagToSet(network') :
          (/\ req.kind = "history"
           /\ CopiesIn(req, network') > CopiesIn(req, network))
          => /\ req.tid # NULL
             /\ req.tid = currentThreadId'
             /\ req.cont \in BootConts =>
                    \E r \in BagToSet(network) :
                        /\ r.kind \in {"threads", "history"}
                        /\ r.cont \in BootConts
                        /\ Arrives(r)]_vars

\* C17 witness: a login has run to its end with the history of the thread
\* selected from the thread list loaded.
C17_Witness ==
    /\ loginPc = "done"
    /\ currentThreadId # NULL
    /\ historyEl.text = "items"
    /\ historyEl.tid = currentThreadId
    /\ <<"login", "threads">> \in launched

\* C18: once the topics loader and the materials loader have both completed
\* with OK responses, the topic id of the displayed material is the id of
\* the topic whose name is the material's title, and the feedback widget
\* is shown for it to a logged-in user, in whatever order the responses
\* arrived.
C18_MaterialsIndependentOfTopics ==
    (/\ matNetwork = EmptyBag
     /\ topicIdMap = Topics
     /\ materialsContent.text = "items")
    => LET id == TopicIdOf(Topics, Title(materialsContent.subject,
                                         materialsContent.category))
       IN  /\ currentMaterialTopicId = id
           /\ materialsContent.widget = (currentUserId # NULL /\ id # NULL)

\* C19: a chat send that fails leaves the local state as it was before the
\* send: on a newly created thread (counter 0, no message) whose chat shows
\* the user's message followed by the error message of the failed send, and
\* for which no other thread's history was applied, the thread is still the
\* active one and the counter is 0 again.
C19_FailedSendLeavesState ==
    \A t \in ThreadIds \ InitialThreadIds :
        (/\ currentThreadId = t
         /\ chatMessages = <<[type |-> "user", tid |-> t],
                             [type |-> "system", tid |-> t]>>
         /\ historyEl.text = "items" => historyEl.tid = t)
        => currentMessagesCount = 0

\* C20: no failure of a network request (a response that is not OK or a
\* transport error) leaves an async operation of the client as a rejected
\* promise that nothing handles.
C20_NoUnhandledRejection ==
    unhandledRejections = 0

\* C21: a click on the tab of the thread that is already active changes
\* nothing: the active thread, the message counter, the context flag, the
\* displayed messages and the displayed history stay as they are, and no
\* history or thread-list request is issued.
C21_SwitchToActiveIsNoOp ==
    [][(\E threadId \in threadTabs :
            /\ threadId = currentThreadId
            /\ UserEvent
            /\ display.chat
            /\ Assign(switchThread(Cur, threadId)))
       => /\ currentThreadId' = currentThreadId
          /\ currentMessagesCount' = currentMessagesCount
          /\ contextWarning' = contextWarning
          /\ chatMessages' = chatMessages
          /\ historyEl' = historyEl
          /\ threadTabs' = threadTabs
          /\ network' = network]_vars

\* C21 witness: after the restore of user 1 (thread 1 active, its one
\* record loaded) exactly one user event has happened and it left no
\* trace: no login, no request in flight, no message, no banner but the
\* one of the restore, the same thread.  Of the user events only a click on the active tab does
\* that.
C21_Witness ==
    /\ ops = 1
    /\ restorePc = "done"
    /\ loginPc = "idle"
    /\ currentUserId = 1
    /\ currentThreadId = 1
    /\ threadTabs = {1, 2}
    /\ historyEl = HistoryItems(1, 1)
    /\ currentMessagesCount = 2
    /\ chatMessages = <<>>
    /\ notification = "success"
    /\ alerts = 0
    /\ network = EmptyBag

\* The texts that loadHistory shows for a failed request.
HistoryFailures == {HistoryText("Failed to load history"),
                    HistoryText("Error connecting to server")}

\* C22: when the history request of a switch fails (non-OK or transport
\* error), the step keeps the new active thread and the counter as the
\* switch left them and issues the thread-list request of the switch; and
\* when that thread-list response arrives, whatever its result, the step
\* changes neither the displayed history nor the counter nor the active
\* thread.
C22_SwitchFailuresIsolated ==
    [][\A req \in BagToSet(network) :
          /\ (/\ req.kind = "history"
              /\ req.cont = "switch_afterHistory"
              /\ Arrives(req)
              /\ historyEl' \in HistoryFailures)
             => /\ currentThreadId' = currentThreadId
                /\ currentMessagesCount' = currentMessagesCount
                /\ contextWarning' = contextWarning
                /\ currentUserId # NULL =>
                       \E r \in BagToSet(network') :
                           /\ r.kind = "threads"
                           /\ r.uid = currentUserId
                           /\ CopiesIn(r, network') > CopiesIn(r, network)
          /\ (/\ req.kind = "threads"
              /\ req.cont = ""
              /\ Arrives(req)
              /\ currentThreadId # NULL)
             => /\ historyEl' = historyEl
                /\ currentMessagesCount' = currentMessagesCount
                /\ contextWarning' = contextWarning
                /\ currentThreadId' = currentThreadId]_vars

\* C22 witness: the user has switched to thread 2, the history request
\* failed, and the thread-list refresh of the switch is in flight with
\* the counter still 0.
C22_Witness ==
    /\ currentThreadId = 2
    /\ currentMessagesCount = 0
    /\ historyEl \in HistoryFailures
    /\ \E r \in BagToSet(network) : r.kind = "threads" /\ r.cont = ""

\* The values of the message counter from which appendMessage is looked
\* at: the current one, and the threshold, from which one more message
\* makes the warning appear.
Counts == {currentMessagesCount, CONTEXT_THRESHOLD}

\* C23: from these values of the counter, appendMessage raises it by
\* exactly 1 for a user or tutor message and sets the context flag to
\* (counter > threshold) for the new value; for a system message it leaves
\* counter and flag as they are.  So the step in which a send fails (non-OK or
\* transport error), which appends a system message, leaves the counter
\* and the flag unchanged.
C23_AppendCountsUserAndTutor ==
    /\ \A n \in Counts, type \in {"user", "tutor", "system"} :
          LET s0 == [Cur EXCEPT !.currentMessagesCount = n]
              s1 == appendMessage(s0, type, currentThreadId)
          IN  /\ Len(s1.chatMessages) = Len(chatMessages) + 1
              /\ IF type = "system"
                 THEN /\ s1.currentMessagesCount = n
                      /\ s1.contextWarning = contextWarning
                 ELSE /\ s1.currentMessagesCount = n + 1
                      /\ s1.contextWarning = (n + 1 > CONTEXT_THRESHOLD)
    /\ \A req \in BagToSet(network), res \in {"notok", "fail"} :
          req.kind = "chat" =>
              LET s1 == sendMessageResume([Cur EXCEPT !.network = Take(req)],
                                          req, res)
              IN  /\ s1.currentMessagesCount = currentMessagesCount
                  /\ s1.contextWarning = contextWarning
                  /\ s1.chatMessages =
                         Append(chatMessages, [type |-> "system", tid |-> req.tid])

\* C23 witness: after the restore (thread 1, one record, counter 2) the
\* user sent one message (counter 3) and the send failed: the error
\* message is displayed and the counter is still 3.
C23_Witness ==
    /\ currentThreadId = 1
    /\ chatMessages = <<[type |-> "user", tid |-> 1],
                        [type |-> "system", tid |-> 1]>>
    /\ notification = "error"
    /\ currentMessagesCount = 3

\* C24: in a browser without a speech-recognition capability every click
\* on the voice button is answered by one alert and leaves voiceEnabled
\* false with no recognition handle created; voiceEnabled is true only in
\* a browser that has the capability.
C24_UnsupportedStaysOff ==
    /\ speechCapability = "absent" =>
           /\ ~voiceEnabled
           /\ recognition = NULL
           /\ handles = <<>>
           /\ alerts = toggles
    /\ voiceEnabled => speechCapability = "present"

\* C24 witness: the voice button was clicked twice in a browser without
\* the capability.
C24_Witness ==
    /\ speechCapability = "absent"
    /\ toggles = 2
    /\ alerts = 2
    /\ ~voiceEnabled

\* C25: while voiceEnabled is true the handle created last is listening
\* in every state between two callbacks, so each of its end events was
\* answered by a restart in the same callback, and no restart threw; while
\* voiceEnabled is false no handle is listening, so no end event restarted
\* one.
C25_RestartWhileEnabled ==
    /\ voiceEnabled =>
           /\ recognition # NULL
           /\ handles[recognition].state = "started"
    /\ ~voiceEnabled =>
           \A h \in 1..Len(handles) : handles[h].state # "started"
    /\ uncaught = 0

\* C25 witness: voice is on and the current handle has ended MaxEnds
\* times and listens again.
C25_Witness ==
    /\ voiceEnabled
    /\ recognition # NULL
    /\ handles[recognition].ends = MaxEnds
    /\ handles[recognition].state = "started"

\* C26: while voiceEnabled is false every handle has its end handler
\* detached and none is listening; and a step that starts and ends with
\* voiceEnabled false passes no transcript to sendMessage, sends no chat
\* request and starts no handle.
C26_OffMeansTornDown ==
    [][/\ ~voiceEnabled' =>
            \A h \in 1..Len(handles') :
                /\ ~handles'[h].onend
                /\ handles'[h].state # "started"
       /\ (~voiceEnabled /\ ~voiceEnabled') =>
            /\ voiceFed' = voiceFed
            /\ Len(handles') = Len(handles)
            /\ \A req \in BagToSet(network') :
                   req.kind = "chat" =>
                       CopiesIn(req, network') <= CopiesIn(req, network)]_vars

\* C26 witness: voice was toggled on and off again; the stopped handle
\* has received a result and its end event since, no transcript was ever
\* passed to sendMessage and the handle was not restarted.
C26_Witness ==
    /\ ~voiceEnabled
    /\ toggles = 2
    /\ Len(handles) = 1
    /\ handles[1].results >= 1
    /\ handles[1].ends = 1
    /\ handles[1].state = "ended"
    /\ voiceFed = <<>>

\* The time of the last call that set a timer act with the given delay:
\* its timer is the one that is due last.
LastShown(act, delay) ==
    LET dues == {tm.due : tm \in {x \in timers : x.act = act}}
    IN  (CHOOSE d \in dues : \A e \in dues : e <= d) - delay

\* C27: a banner is hidden only by the lifecycle of the call that showed
\* it.  The standard banner is hidden about NOTIFICATION_MS after it was
\* shown last, and the level-up banner is faded about LEVELUP_MS after it
\* was shown last and hidden only from the faded state; "about" allows
\* the FADE_MS that lie between the fade and the removal.
C27_ShownThenFadedThenHidden ==
    [][/\ (notifEl.display /\ ~notifEl'.display) =>
            now >= LastShown("hideNotification", NOTIFICATION_MS)
                       + NOTIFICATION_MS - FADE_MS
       /\ (levelEl.display /\ levelEl.opacity = 1 /\ levelEl'.opacity = 0) =>
            now >= LastShown("fadeLevelUp", LEVELUP_MS)
                       + LEVELUP_MS - FADE_MS
       /\ (levelEl.display /\ ~levelEl'.display) =>
            levelEl.opacity = 0]_vars

\* C28: while #notification is absent, the calls of showNotification have
\* left its state as it was and set no timer; likewise showLevelUp while
\* #level-notification is absent.
C28_AbsentElementIsNoOp ==
    /\ notifMounted = "absent" =>
           /\ notifEl = [display |-> FALSE, text |-> ""]
           /\ \A tm \in timers : tm.act # "hideNotification"
    /\ levelMounted = "absent" =>
           /\ levelEl = [display |-> FALSE, opacity |-> 0, text |-> ""]
           /\ \A tm \in timers : tm.act \notin {"fadeLevelUp", "removeLevelUp"}

\* C28 witness: showNotification and showLevelUp have both been called
\* in a page that has neither element; no timer is pending.
C28_Witness ==
    /\ notifMounted = "absent"
    /\ levelMounted = "absent"
    /\ shows = 2
    /\ timers = {}

\* The step takes request req out of matNetwork (its response arrives).
ArrivesMat(req) == CopiesIn(req, matNetwork') < CopiesIn(req, matNetwork)

\* C29: whenever the response to a category request fills the category
\* select, the selected category is the first category the server reports
\* for the subject that is selected, and the step requests the materials
\* of that subject and that category.
C29_SubjectChangeResetsCategory ==
    [][\A req \in BagToSet(matNetwork) :
          (/\ req.kind = "categories"
           /\ ArrivesMat(req)
           /\ categorySelect'.options # categorySelect.options)
          => LET subject == Value(subjectSelect')
                 first == Categories(subject)[1]
             IN  /\ Value(categorySelect') = first
                 /\ \E r \in BagToSet(matNetwork') :
                        /\ r = MatReq("materials", subject, first)
                        /\ CopiesIn(r, matNetwork') > CopiesIn(r, matNetwork)]_vars

\* C30: the xp of the client changes only by applying a value that the
\* server reported: a step that changes the xp of the React context is a
\* step in which a dashboard response arrives.
C30_XpOnlyFromServer ==
    [][ctxXp' # ctxXp =>
          \E req \in BagToSet(pageNetwork) :
              /\ req.kind = "dashboard"
              /\ CopiesIn(req, pageNetwork') < CopiesIn(req, pageNetwork)]_vars

\* C31: the active thread survives a reload: when the page that was
\* reloaded had an active thread, the thread that becomes active on the
\* new page is that one.
C31_ActiveThreadSurvivesReload ==
    [][(/\ reload.count > 0
        /\ reload.thread # NULL
        /\ currentThreadId = NULL
        /\ currentThreadId' # NULL)
       => currentThreadId' = reload.thread]_vars

\* C33: the page load after a reload shows the theme that was displayed
\* when the page was reloaded, and from every state two clicks on the
\* theme button give the theme of that state.
C33_ThemeRoundTrips ==
    /\ [](toggleTheme(toggleTheme(Cur)).theme.dark = theme.dark)
    /\ [][(reload.count > 0 /\ restorePc = "init" /\ restorePc' # "init")
          => theme'.dark = reload.dark]_vars

\* C33 witness: the page was reloaded in dark mode, after three clicks on
\* the button, and the new page has run its load handler and is dark.
C33_Witness ==
    /\ reload.count = 1
    /\ reload.dark
    /\ restorePc # "init"
    /\ theme = [dark |-> TRUE, stored |-> "dark"]

\* The step is a click on Send (the two other events of the page change the
\* input or the thread).
SendClicked ==
    /\ pageOps' = pageOps + 1
    /\ input' = input
    /\ ctxThreadId' = ctxThreadId

\* The step is the arrival of the OK response of chat request req.
ChatArrivesOK(req) ==
    /\ req.kind = "chat"
    /\ pageNetwork' = PageTake(req)
    /\ unhandledRejections' = unhandledRejections

\* C32: in the React Chat page, a click on Send with an empty input changes
\* nothing and sends nothing; with a non-empty input it sends the input, and
\* when the response arrives exactly two entries are appended to the message
\* list, the user's text followed by the tutor's reply (the response field
\* of the body, else its reply field, else the empty text), and the input is
\* cleared.
C32_SendAppendsPair ==
    [][/\ (SendClicked /\ input = "")
          => UNCHANGED <<messages, pageNetwork, ctxXp, unhandledRejections>>
       /\ (SendClicked /\ input # "")
          => \E body \in Bodies :
                 pageNetwork' = pageNetwork (+)
                     SetToBag({PageReq("chat", userId, ctxThreadId, input,
                                       ctxXp, body)})
       /\ \A req \in BagToSet(pageNetwork) :
              ChatArrivesOK(req)
              => /\ Len(messages') = Len(messages) + 2
                 /\ SubSeq(messages', 1, Len(messages)) = messages
                 /\ messages'[Len(messages) + 1] =
                        [sender |-> "user", text |-> req.input]
                 /\ messages'[Len(messages) + 2] =
                        [sender |-> "bot",
                         text |-> IF req.body.response # undefined
                                  THEN req.body.response
                                  ELSE IF req.body.reply # undefined
                                       THEN req.body.reply
                                       ELSE ""]
                 /\ input' = ""]_vars

\* The reply was taken from the reply field of a body without a response
\* field, after the user's text, and the input is cleared.
C32_Witness ==
    /\ page = "chat"
    /\ messages = <<[sender |-> "user", text |-> "hello"],
                    [sender |-> "bot", text |-> "hello back"]>>
    /\ input = ""
    /\ pageOps >= 2

\* C34: a tutor reply to a message sent while thread A was active, which
\* arrives when another thread B of the same user is active, is not
\* appended to the displayed messages and does not change the message
\* counter.
C34_LateReplyStaysOutOfOtherThread ==
    [][\A req \in BagToSet(network) :
           (/\ Arrives(req)
            /\ req.kind = "chat"
            /\ req.uid = currentUserId
            /\ req.tid # NULL
            /\ currentThreadId # NULL
            /\ req.tid # currentThreadId
            /\ serverHistory' # serverHistory)
           => /\ chatMessages' = chatMessages
              /\ currentMessagesCount' = currentMessagesCount]_vars

\* C35: in every state the active thread id is null or the id of a thread
\* of the user who is authenticated; with no user authenticated it is null.
C35_ActiveThreadBelongsToUser ==
    currentThreadId # NULL
    => /\ currentUserId # NULL
       /\ currentThreadId \in serverThreads[currentUserId]

\* No category or material request is in flight.
MaterialsQuiescent ==
    \A req \in BagToSet(matNetwork) : req.kind \notin {"categories", "materials"}

\* C36: once all category and material requests have completed, in any
\* order, the category options that are displayed are exactly the
\* categories of the selected subject, and the materials that are displayed
\* are those of the selected subject and the selected category.
C36_QuiescentPanelMatchesSelection ==
    (/\ MaterialsQuiescent
     /\ Len(subjectSelect.options) > 0
     /\ Len(categorySelect.options) > 0)
    => /\ categorySelect.options = Categories(Value(subjectSelect))
       /\ materialsContent.text = "items"
          => /\ materialsContent.subject = Value(subjectSelect)
             /\ materialsContent.category = Value(categorySelect)

\* C37: while the level of the user on the server never decreases, no level
\* triggers showLevelUp twice, whatever the number of dashboard requests in
\* flight and the order in which their responses are processed.
C37_OneLevelUpPerLevel ==
    \A i, j \in DOMAIN levelUpLog :
        i # j => levelUpLog[i] # levelUpLog[j]

\* C38: while no user is signed in, the response to a chat, history or
\* dashboard request (issued before the sign-out) changes neither the
\* displayed chat nor the displayed history nor the summary.
C38_SignedOutIgnoresResponses ==
    [][\A req \in BagToSet(network) :
           (/\ Arrives(req)
            /\ req.kind \in {"chat", "history", "dashboard"}
            /\ currentUserId = NULL)
           => /\ chatMessages' = chatMessages
              /\ historyEl' = historyEl
              /\ summaryEl' = summaryEl]_vars

\* C39: only the handle that is the current one feeds sendMessage: a result
\* event of an earlier handle, stopped when voice was toggled off, which is
\* delivered after voice was toggled on again, sends no message: the step
\* issues no request and displays no message.
C39_OnlyCurrentHandleFeeds ==
    [][\A h \in 1..Len(handles) :
           (/\ Len(handles') = Len(handles)
            /\ handles'[h].results = handles[h].results + 1
            /\ h # recognition)
           => /\ network' = network
              /\ chatMessages' = chatMessages]_vars

\* The step is the arrival of the OK response of history request req.
HistoryArrivesOK(req) ==
    /\ req.kind = "history"
    /\ pageNetwork' = PageTake(req)
    /\ consoleErrors' = consoleErrors

\* The entry was appended by send: the history is displayed with the texts
\* of its records, send with the text that was typed.
FromSend(m) == m.sender = "user" /\ m.text \in Inputs

\* C40: in the React Chat page, the pair that send appended stays in the
\* message list when the response to a history request for the thread that
\* is displayed, requested before the send, arrives after it.
C40_HistoryKeepsSentPair ==
    [][\A req \in BagToSet(pageNetwork) :
           (HistoryArrivesOK(req) /\ req.tid = ctxThreadId)
           => \A i \in DOMAIN messages :
                  FromSend(messages[i])
                  => \E j \in DOMAIN messages' :
                         /\ j < Len(messages')
                         /\ messages'[j] = messages[i]
                         /\ messages'[j + 1] = messages[i + 1]]_vars

=============================================================================
